---- MODULE Spec2Model ----
(***************************************************************************)
(* Bond fan platform (homeassistant/components/bond/fan.py).               *)
(*                                                                         *)
(* One adapter (BondFan or BondFireplaceFan) over one device.  The hub is  *)
(* an opaque dispatcher: every bond.action call either completes or raises *)
(* ClientResponseError(code, message).  Snapshots arrive from the hub at   *)
(* any time and are applied with _apply_state, also while a command is     *)
(* suspended in an await.  One command runs at a time (the platform calls  *)
(* an entity from a single-threaded dispatcher).                           *)
(*                                                                         *)
(* Python values: None is the integer None below; bool is 0/1 (True == 1); *)
(* an absent dict key reads as None (dict.get); str | None uses "None".    *)
(***************************************************************************)
EXTENDS Integers, Sequences, FiniteSets, TLC

VARIABLES
    device,             \* BondDevice: type, props, actions, commands (static)
    state,              \* self._device.state, the latest snapshot
    _power,             \* self._power
    _speed,             \* self._speed
    _direction,         \* self._direction
    _attr_preset_mode,  \* self._attr_preset_mode
    _speeds,            \* BondFireplaceFan._speeds (StepTable)
    applied,            \* how the last _apply_state ended
    call,               \* the last command called on the entity
    pc,                 \* the await the command is suspended in, or "idle"
    dispatched,         \* the bond.action calls the command has issued, in order
    raised,             \* the exception the command ended with
    hub_error,          \* the error the hub answered a call of the command with
    converted           \* the percentage -> step conversions the command evaluated

vars == <<device, state, _power, _speed, _direction, _attr_preset_mode,
          _speeds, applied, call, pc, dispatched, raised, hub_error, converted>>

-----------------------------------------------------------------------------
(* Bounds of the model *)

MaxSpeed == 2           \* largest props["max_speed"] of a modelled fan
MaxSteps == 2           \* most SET_FP_FAN commands of a modelled fireplace
MaxConvSpeed == 6       \* largest max_speed in the conversion specification
MaxConvSteps == 3       \* most SET_FP_FAN commands in the conversion specification

-----------------------------------------------------------------------------
(* Python and library values *)

None == -99
NoneStr == "None"

Truthy(v) == v # None /\ v # 0

min(a, b) == IF a <= b THEN a ELSE b
max(a, b) == IF a >= b THEN a ELSE b

PRESET_MODE_BREEZE == "Breeze"
DIRECTION_FORWARD == "forward"
DIRECTION_REVERSE == "reverse"

\* bond_async.Direction
Direction_FORWARD == 1
Direction_REVERSE == -1

\* bond_async.Action(name, argument); key is the state-belief field named
Action(name, key, argument) == [name |-> name, key |-> key, argument |-> argument]

Action_set_speed(speed) == Action("SetSpeed", "", speed)
Action_turn_on == Action("TurnOn", "", None)
Action_turn_off == Action("TurnOff", "", None)
Action_set_direction(d) == Action("SetDirection", "", d)
Action_BREEZE_ON == Action("BreezeOn", "", None)
Action_BREEZE_OFF == Action("BreezeOff", "", None)
Action_set_power_state_belief(power_state) ==
    Action("SetStateBelief", "power", IF power_state THEN 1 ELSE 0)
Action_set_speed_belief(speed) == Action("SetStateBelief", "speed", speed)
Action_SET_FP_FAN(argument) == Action("SetFpFan", "", argument)
Action_TURN_FP_FAN_ON == Action("TurnFpFanOn", "", None)
Action_TURN_FP_FAN_OFF == Action("TurnFpFanOff", "", None)
\* Action(Action.SET_STATE_BELIEF, {field, value}): the payload names the
\* field and holds the value
Action_SET_STATE_BELIEF(field, value) == Action("SetStateBelief", field, value)

-----------------------------------------------------------------------------
(* homeassistant.util.percentage *)

states_in_range(low_high_range) == low_high_range[2] - low_high_range[1] + 1

int_states_in_range(low_high_range) == states_in_range(low_high_range)

\* a float, kept exact as the fraction num/den
percentage_to_ranged_value(low_high_range, percentage) ==
    [num |-> states_in_range(low_high_range) * percentage
                + (low_high_range[1] - 1) * 100,
     den |-> 100]

ranged_value_to_percentage(low_high_range, value) ==
    ((value - (low_high_range[1] - 1)) * 100) \div states_in_range(low_high_range)

\* math.ceil / math.floor of a fraction with a positive denominator
math_floor(x) == x.num \div x.den
math_ceil(x) == -((-x.num) \div x.den)

-----------------------------------------------------------------------------
(* Exceptions and the course of one command *)

NoError == [type |-> "none", api |-> "", entity_id |-> "", code |-> None, message |-> ""]

ClientResponseError(e) ==
    [type |-> "ClientResponseError", api |-> "", entity_id |-> "",
     code |-> e.code, message |-> e.message]

HomeAssistantError(api, entity_id, ex) ==
    [type |-> "HomeAssistantError", api |-> api, entity_id |-> entity_id,
     code |-> ex.code, message |-> ex.message]

ValueError == [type |-> "ValueError", api |-> "", entity_id |-> "", code |-> None, message |-> ""]
IndexError == [type |-> "IndexError", api |-> "", entity_id |-> "", code |-> None, message |-> ""]

\* what the hub answers a bond.action call with: NoHubError (it completes) or
\* the code and message of a ClientResponseError
NoHubError == [code |-> None, message |-> ""]
HubErrors == {[code |-> 404, message |-> "Not Found"],
              [code |-> 500, message |-> "Internal Server Error"]}
Answers == {NoHubError} \cup HubErrors

\* a command coroutine: what it has dispatched, evaluated and raised so far,
\* and where it is: "run" (executing) or the await it is suspended in
Enter == [dispatched |-> <<>>, raised |-> NoError, hub_error |-> NoHubError,
          converted |-> <<>>, pc |-> "run"]

Running(r) == r.pc = "run" /\ r.raised.type = "none"

\* await self._hub.bond.action(self._device.device_id, action), at the await
\* named `at`: the hub receives the action and the coroutine is suspended
bond_action(r, action, at) ==
    IF ~Running(r) THEN r
    ELSE [r EXCEPT !.dispatched = Append(@, action), !.pc = at]

\* raise exc
Raise(r, exc) == IF ~Running(r) THEN r ELSE [r EXCEPT !.raised = exc]

entity_id == IF device.type = "fan" THEN "fan.ceiling" ELSE "fan.fireplace"

-----------------------------------------------------------------------------
(* The device *)

RECURSIVE sorted(_)
sorted(list) ==
    IF list = <<>> THEN <<>>
    ELSE LET x == list[Len(list)]
             s == sorted(SubSeq(list, 1, Len(list) - 1))
             k == Cardinality({i \in 1..Len(s) : s[i] <= x})
         IN SubSeq(s, 1, k) \o <<x>> \o SubSeq(s, k + 1, Len(s))

\* list.index(value): the 0-based position of the first occurrence
list_index(list, value) ==
    IF \E i \in 1..Len(list) : list[i] = value
    THEN [raised |-> NoError,
          value |-> (CHOOSE i \in 1..Len(list) :
                        /\ list[i] = value
                        /\ \A j \in 1..(i - 1) : list[j] # value) - 1]
    ELSE [raised |-> ValueError, value |-> None]

\* list[i] with Python's negative indices
list_getitem(list, i) ==
    LET k == IF i < 0 THEN i + Len(list) ELSE i
    IN IF k >= 0 /\ k < Len(list)
       THEN [raised |-> NoError, value |-> list[k + 1]]
       ELSE [raised |-> IndexError, value |-> None]

\* the arguments a fireplace reports for its SET_FP_FAN commands
BondPercentages == {33, 66, 100}

CommandLists(most) ==
    {c \in UNION {[1..n -> BondPercentages] : n \in 0..most} :
        \A i, j \in DOMAIN c : i # j => c[i] # c[j]}

FanDevices(speeds) ==
    [type : {"fan"}, max_speed : {None} \cup speeds,
     actions : SUBSET {"BreezeOn"}, commands : {<<>>}]

FireplaceDevices(most) ==
    [type : {"fireplace"}, max_speed : {None},
     actions : {{}}, commands : CommandLists(most)]

has_action(action) == action \in device.actions

\* device.find_commands(Action.SET_FP_FAN), each as its cmd["argument"]
find_commands(d) == d.commands

\* the snapshots the hub reports
EmptyState ==
    [power |-> None, speed |-> None, direction |-> None, breeze |-> <<>>,
     fpfan_power |-> None, fpfan_speed |-> None]

FanStates ==
    [power : {0, 1}, speed : 0..MaxSpeed,
     direction : {Direction_FORWARD, Direction_REVERSE},
     breeze : {<<>>, <<1, 50, 50>>},
     fpfan_power : {None}, fpfan_speed : {None}]

FireplaceStates ==
    [power : {None}, speed : {None}, direction : {None}, breeze : {<<>>},
     fpfan_power : {0, 1}, fpfan_speed : {0} \cup BondPercentages]

-----------------------------------------------------------------------------
(* class BondFan *)

\* the attributes after _apply_state on the snapshot s
BondFan_apply_state(s) ==
    LET breeze == IF s.breeze = <<>> THEN <<0, 0, 0>> ELSE s.breeze
    IN [_power |-> s.power,
        _speed |-> s.speed,
        _direction |-> s.direction,
        _attr_preset_mode |-> IF Truthy(breeze[1]) THEN PRESET_MODE_BREEZE ELSE NoneStr,
        applied |-> "ok"]

BondFan_speed_range ==
    <<1, IF device.max_speed = None THEN 3 ELSE device.max_speed>>

\* variant of percentage that ignores the power flag
BondFan_percentage_nopower ==
    IF ~Truthy(_speed) THEN 0
    ELSE min(100, max(0, ranged_value_to_percentage(BondFan_speed_range, _speed)))

BondFan_percentage ==
    IF ~Truthy(_speed) \/ ~Truthy(_power) THEN 0
    ELSE min(100, max(0, ranged_value_to_percentage(BondFan_speed_range, _speed)))

BondFan_speed_count == int_states_in_range(BondFan_speed_range)

BondFan_current_direction ==
    IF _direction = Direction_FORWARD THEN DIRECTION_FORWARD
    ELSE IF _direction = Direction_REVERSE THEN DIRECTION_REVERSE
    ELSE NoneStr

\* FanEntity.preset_mode
preset_mode == _attr_preset_mode

\* the record of one evaluation of math.ceil(percentage_to_ranged_value(...))
Conversion(range, percentage, step) ==
    [percentage |-> percentage, states |-> states_in_range(range), step |-> step]

Converted(r, c) ==
    IF ~Running(r) THEN r ELSE [r EXCEPT !.converted = Append(@, c)]

\* variant of the conversion that rounds down
BondFan_bond_speed_floor(percentage) ==
    math_floor(percentage_to_ranged_value(BondFan_speed_range, percentage))

BondFan_bond_speed(percentage) ==
    math_ceil(percentage_to_ranged_value(BondFan_speed_range, percentage))

\* variant of async_turn_off that does not leave the preset
BondFan_async_turn_off_nopreset(r) ==
    bond_action(r, Action_turn_off, "BondFan:221")

\* from its entry to its first await
BondFan_async_turn_off(r) ==
    LET r1 == IF preset_mode = PRESET_MODE_BREEZE
              THEN bond_action(r, Action_BREEZE_OFF, "BondFan:218")
              ELSE r
    IN bond_action(r1, Action_turn_off, "BondFan:221")

\* from the return of the await of BREEZE_OFF (218-220)
BondFan_async_turn_off_after_218(r) ==
    bond_action(r, Action_turn_off, "BondFan:221")

\* variant of async_set_percentage without the branch for 0
BondFan_async_set_percentage_nozero(r, percentage) ==
    LET bond_speed == BondFan_bond_speed(percentage)
        r1 == Converted(r, Conversion(BondFan_speed_range, percentage, bond_speed))
    IN bond_action(r1, Action_set_speed(bond_speed), "BondFan:150")

BondFan_async_set_percentage(r, percentage) ==
    IF percentage = 0 THEN BondFan_async_turn_off(r)
    ELSE LET bond_speed == BondFan_bond_speed(percentage)
             r1 == Converted(r, Conversion(BondFan_speed_range, percentage, bond_speed))
         IN bond_action(r1, Action_set_speed(bond_speed), "BondFan:150")

\* from its entry to its await (inside the try)
BondFan_async_set_power_belief(r, power_state) ==
    bond_action(r, Action_set_power_state_belief(power_state), "BondFan:157")

\* variant of the except clause that lets the error through
BondFan_async_set_power_belief_except_raw(r) == r

\* except ClientResponseError as ex (160-164), r.raised being ex
BondFan_async_set_power_belief_except(r) ==
    [r EXCEPT !.raised = HomeAssistantError("set_power_state_belief", entity_id, r.raised)]

\* from the return of await self.async_set_power_belief(True) (173)
BondFan_async_set_speed_belief_after_173(r, speed) ==
    LET bond_speed == BondFan_bond_speed(speed)
        r1 == Converted(r, Conversion(BondFan_speed_range, speed, bond_speed))
    IN bond_action(r1, Action_set_speed_belief(bond_speed), "BondFan:182")

\* variant of async_set_speed_belief that does not set the power belief first
BondFan_async_set_speed_belief_nopower(r, speed) ==
    IF speed = 0 THEN BondFan_async_set_power_belief(r, FALSE)
    ELSE BondFan_async_set_speed_belief_after_173(r, speed)

BondFan_async_set_speed_belief(r, speed) ==
    IF speed = 0 THEN BondFan_async_set_power_belief(r, FALSE)
    ELSE BondFan_async_set_speed_belief_after_173(
             BondFan_async_set_power_belief(r, TRUE), speed)

\* except ClientResponseError as ex (185-189)
BondFan_async_set_speed_belief_except(r) ==
    [r EXCEPT !.raised = HomeAssistantError("set_speed_belief", entity_id, r.raised)]

BondFan_async_set_preset_mode(r, mode) ==
    IF mode # PRESET_MODE_BREEZE \/ ~has_action("BreezeOn")
    THEN Raise(r, ValueError)
    ELSE bond_action(r, Action_BREEZE_ON, "BondFan:213")

BondFan_async_turn_on(r, percentage, mode) ==
    IF mode # NoneStr THEN BondFan_async_set_preset_mode(r, mode)
    ELSE IF percentage # None THEN BondFan_async_set_percentage(r, percentage)
    ELSE bond_action(r, Action_turn_on, "BondFan:205")

BondFan_async_set_direction(r, direction) ==
    LET bond_direction == IF direction = DIRECTION_REVERSE
                          THEN Direction_REVERSE ELSE Direction_FORWARD
    IN bond_action(r, Action_set_direction(bond_direction), "BondFan:228")

-----------------------------------------------------------------------------
(* class BondFireplaceFan *)

BondFireplaceFan_speed_range == <<1, Len(_speeds)>>

BondFireplaceFan_percentage ==
    IF ~Truthy(_speed) \/ ~Truthy(_power) THEN 0 ELSE _speed

BondFireplaceFan_speed_count == int_states_in_range(BondFireplaceFan_speed_range)

\* _to_bond_percentage and _from_bond_percentage give the value returned or
\* the exception raised (and the conversion evaluated)
\* variant of _to_bond_percentage that rounds down
_to_bond_percentage_floor(percentage) ==
    IF ~Truthy(percentage)
    THEN [raised |-> NoError, value |-> 0, converted |-> <<>>]
    ELSE LET speed == math_floor(
                 percentage_to_ranged_value(BondFireplaceFan_speed_range, percentage))
             item == list_getitem(_speeds, speed - 1)
         IN [raised |-> item.raised,
             value |-> IF item.raised.type = "none" THEN min(100, item.value) ELSE None,
             converted |-> <<Conversion(BondFireplaceFan_speed_range, percentage, speed)>>]

_to_bond_percentage(percentage) ==
    IF ~Truthy(percentage)
    THEN [raised |-> NoError, value |-> 0, converted |-> <<>>]
    ELSE LET speed == math_ceil(
                 percentage_to_ranged_value(BondFireplaceFan_speed_range, percentage))
             item == list_getitem(_speeds, speed - 1)
         IN [raised |-> item.raised,
             value |-> IF item.raised.type = "none" THEN min(100, item.value) ELSE None,
             converted |-> <<Conversion(BondFireplaceFan_speed_range, percentage, speed)>>]

\* variant of _from_bond_percentage that answers 0 for a value not in the table
_from_bond_percentage_default(bond_percentage) ==
    IF ~Truthy(bond_percentage) THEN [raised |-> NoError, value |-> 0]
    ELSE LET speed == list_index(_speeds, bond_percentage)
         IN IF speed.raised.type # "none" THEN [raised |-> NoError, value |-> 0]
            ELSE [raised |-> NoError,
                  value |-> min(100, max(0, ranged_value_to_percentage(
                                BondFireplaceFan_speed_range, speed.value + 1)))]

_from_bond_percentage(bond_percentage) ==
    IF ~Truthy(bond_percentage) THEN [raised |-> NoError, value |-> 0]
    ELSE LET speed == list_index(_speeds, bond_percentage)
         IN IF speed.raised.type # "none" THEN [raised |-> speed.raised, value |-> None]
            ELSE [raised |-> NoError,
                  value |-> min(100, max(0, ranged_value_to_percentage(
                                BondFireplaceFan_speed_range, speed.value + 1)))]

\* the attributes after _apply_state on the snapshot s, the entity having
\* the attributes `self` before: _power is assigned, then the conversion
\* returns or raises
BondFireplaceFan_apply_state(s, self) ==
    LET speed == _from_bond_percentage(s.fpfan_speed)
    IN [_power |-> s.fpfan_power,
        _speed |-> IF speed.raised.type = "none" THEN speed.value ELSE self._speed,
        _direction |-> self._direction,
        _attr_preset_mode |-> self._attr_preset_mode,
        applied |-> IF speed.raised.type = "none" THEN "ok" ELSE speed.raised.type]

\* the evaluation of an argument expression within the command
Evaluated(r, v) ==
    IF ~Running(r) THEN r
    ELSE [r EXCEPT !.converted = @ \o v.converted, !.raised = v.raised]

BondFireplaceFan_async_turn_off(r) ==
    bond_action(r, Action_TURN_FP_FAN_OFF, "BondFireplaceFan:367")

BondFireplaceFan_async_set_percentage(r, percentage) ==
    IF percentage = 0 THEN BondFireplaceFan_async_turn_off(r)
    ELSE LET v == _to_bond_percentage(percentage)
         IN bond_action(Evaluated(r, v), Action_SET_FP_FAN(v.value),
                        "BondFireplaceFan:309")

\* from its entry to its await (inside the try)
BondFireplaceFan_async_set_power_belief(r, power_state) ==
    bond_action(r,
        Action_SET_STATE_BELIEF("fpfan_power", IF power_state THEN 1 ELSE 0),
        "BondFireplaceFan:317")

\* except ClientResponseError as ex (321-325)
BondFireplaceFan_async_set_power_belief_except(r) ==
    [r EXCEPT !.raised =
        HomeAssistantError("set_fpfan_power_state_belief", entity_id, r.raised)]

\* from the return of await self.async_set_power_belief(True) (334)
BondFireplaceFan_async_set_speed_belief_after_334(r, speed) ==
    LET v == _to_bond_percentage(speed)
    IN bond_action(Evaluated(r, v), Action_SET_STATE_BELIEF("fpfan_speed", v.value),
                   "BondFireplaceFan:337")

BondFireplaceFan_async_set_speed_belief(r, speed) ==
    IF speed = 0 THEN BondFireplaceFan_async_set_power_belief(r, FALSE)
    ELSE BondFireplaceFan_async_set_speed_belief_after_334(
             BondFireplaceFan_async_set_power_belief(r, TRUE), speed)

\* except ClientResponseError as ex (344-348)
BondFireplaceFan_async_set_speed_belief_except(r) ==
    [r EXCEPT !.raised =
        HomeAssistantError("set_fpfan_speed_belief", entity_id, r.raised)]

\* preset_mode is not a parameter: it arrives in **kwargs and is not read
BondFireplaceFan_async_turn_on(r, percentage, kwargs_preset_mode) ==
    IF percentage # None THEN BondFireplaceFan_async_set_percentage(r, percentage)
    ELSE bond_action(r, Action_TURN_FP_FAN_ON, "BondFireplaceFan:361")

-----------------------------------------------------------------------------
(* The entity under its platform: construction, snapshots, commands *)

NoCall ==
    [op |-> "none", percentage |-> None, preset_mode |-> NoneStr,
     direction |-> NoneStr, power_state |-> FALSE]

Called(op, percentage, mode, direction, power_state) ==
    [op |-> op, percentage |-> percentage, preset_mode |-> mode,
     direction |-> direction, power_state |-> power_state]

\* the attributes as the two __init__ assign them before super().__init__
InitAttributes ==
    [_power |-> None, _speed |-> None, _direction |-> None,
     _attr_preset_mode |-> NoneStr, applied |-> "none"]

Attributes ==
    [_power |-> _power, _speed |-> _speed, _direction |-> _direction,
     _attr_preset_mode |-> _attr_preset_mode, applied |-> applied]

\* BondFan.__init__ / BondFireplaceFan.__init__ on the device d whose state is
\* s.  BondEntity.__init__ (super().__init__, outside this file) either
\* leaves the attributes as assigned or runs _apply_state on s; when that
\* raises, no entity is constructed.
Constructed(d, s) ==
    /\ device = d
    /\ state = s
    /\ _speeds = IF d.type = "fireplace" THEN sorted(find_commands(d)) ELSE <<>>
    /\ \E a \in {InitAttributes,
                  IF d.type = "fan" THEN BondFan_apply_state(s)
                  ELSE BondFireplaceFan_apply_state(s, InitAttributes)} :
          /\ a.applied # "ValueError"
          /\ _power = a._power
          /\ _speed = a._speed
          /\ _direction = a._direction
          /\ _attr_preset_mode = a._attr_preset_mode
          /\ applied = a.applied
    /\ call = NoCall
    /\ pc = "idle"
    /\ dispatched = <<>>
    /\ raised = NoError
    /\ hub_error = NoHubError
    /\ converted = <<>>

\* the coroutine goes on to its next await, returns or raises; it assigns no
\* attribute of the entity
Proceeds(r) ==
    /\ pc' = IF Running(r) \/ r.raised.type # "none" THEN "idle" ELSE r.pc
    /\ dispatched' = r.dispatched
    /\ raised' = r.raised
    /\ hub_error' = r.hub_error
    /\ converted' = r.converted
    /\ UNCHANGED <<device, state, _power, _speed, _direction,
                   _attr_preset_mode, _speeds, applied>>

\* the platform calls a command: it runs to its first await, or raises
Starts(c, r) ==
    /\ pc = "idle"
    /\ call' = c
    /\ Proceeds(r)

\* the hub pushes or the poll fetches a snapshot: it replaces device.state and
\* _apply_state runs
UpdateState(fanStates, fireplaceStates) ==
    \E s \in (IF device.type = "fan" THEN fanStates ELSE fireplaceStates) :
        LET a == IF device.type = "fan" THEN BondFan_apply_state(s)
                 ELSE BondFireplaceFan_apply_state(s, Attributes)
        IN /\ state' = s
           /\ _power' = a._power
           /\ _speed' = a._speed
           /\ _direction' = a._direction
           /\ _attr_preset_mode' = a._attr_preset_mode
           /\ applied' = a.applied
           /\ UNCHANGED <<device, _speeds, call, pc, dispatched, raised,
                          hub_error, converted>>

SetPercentage(percentages) ==
    \E p \in percentages :
        Starts(Called("async_set_percentage", p, NoneStr, NoneStr, FALSE),
               IF device.type = "fan"
               THEN BondFan_async_set_percentage(Enter, p)
               ELSE BondFireplaceFan_async_set_percentage(Enter, p))

SetSpeedBelief(percentages) ==
    \E p \in percentages :
        Starts(Called("async_set_speed_belief", p, NoneStr, NoneStr, FALSE),
               IF device.type = "fan"
               THEN BondFan_async_set_speed_belief(Enter, p)
               ELSE BondFireplaceFan_async_set_speed_belief(Enter, p))

SetPowerBelief ==
    \E b \in BOOLEAN :
        Starts(Called("async_set_power_belief", None, NoneStr, NoneStr, b),
               IF device.type = "fan"
               THEN BondFan_async_set_power_belief(Enter, b)
               ELSE BondFireplaceFan_async_set_power_belief(Enter, b))

TurnOn(percentages, modes) ==
    \E p \in percentages \cup {None}, m \in modes \cup {NoneStr} :
        Starts(Called("async_turn_on", p, m, NoneStr, FALSE),
               IF device.type = "fan"
               THEN BondFan_async_turn_on(Enter, p, m)
               ELSE BondFireplaceFan_async_turn_on(Enter, p, m))

TurnOff ==
    Starts(Called("async_turn_off", None, NoneStr, NoneStr, FALSE),
           IF device.type = "fan"
           THEN BondFan_async_turn_off(Enter)
           ELSE BondFireplaceFan_async_turn_off(Enter))

\* BondFireplaceFan defines neither async_set_preset_mode nor async_set_direction
SetPresetMode(modes) ==
    /\ device.type = "fan"
    /\ \E m \in modes :
        Starts(Called("async_set_preset_mode", None, m, NoneStr, FALSE),
               BondFan_async_set_preset_mode(Enter, m))

SetDirection(directions) ==
    /\ device.type = "fan"
    /\ \E d \in directions :
        Starts(Called("async_set_direction", None, NoneStr, d, FALSE),
               BondFan_async_set_direction(Enter, d))

\* the coroutine as it is resumed from its await
Resumed ==
    [dispatched |-> dispatched, raised |-> NoError, hub_error |-> hub_error,
     converted |-> converted, pc |-> "run"]

\* the await raises ClientResponseError(e): the except clause around it, if any
Excepts(e) ==
    LET r == [Resumed EXCEPT !.raised = ClientResponseError(e), !.hub_error = e]
    IN CASE pc = "BondFan:157" -> BondFan_async_set_power_belief_except(r)
         [] pc = "BondFan:182" -> BondFan_async_set_speed_belief_except(r)
         [] pc = "BondFireplaceFan:317" -> BondFireplaceFan_async_set_power_belief_except(r)
         [] pc = "BondFireplaceFan:337" -> BondFireplaceFan_async_set_speed_belief_except(r)
         [] OTHER -> r

\* the await returns: the statements after it, in the method and its callers
Continues ==
    CASE pc = "BondFan:218" -> BondFan_async_turn_off_after_218(Resumed)
      [] pc = "BondFan:157" /\ call.op = "async_set_speed_belief" /\ call.percentage # 0
            -> BondFan_async_set_speed_belief_after_173(Resumed, call.percentage)
      [] pc = "BondFireplaceFan:317" /\ call.op = "async_set_speed_belief"
                                     /\ call.percentage # 0
            -> BondFireplaceFan_async_set_speed_belief_after_334(Resumed, call.percentage)
      [] OTHER -> Resumed

\* the hub answers the call the command is suspended in
Answer(answers) ==
    /\ pc # "idle"
    /\ \E a \in answers :
          Proceeds(IF a = NoHubError THEN Continues ELSE Excepts(a))
    /\ UNCHANGED call

\* the inputs of the commands
Percentages == {0, 50, 100}
PresetModes == {PRESET_MODE_BREEZE, "Sleep"}
Directions == {DIRECTION_FORWARD, DIRECTION_REVERSE}

Init ==
    \E d \in FanDevices(1..MaxSpeed) \cup FireplaceDevices(MaxSteps) :
        \E s \in {EmptyState}
                 \cup (IF d.type = "fan" THEN FanStates ELSE FireplaceStates) :
            Constructed(d, s)

Next ==
    \/ UpdateState(FanStates, FireplaceStates)
    \/ SetPercentage(Percentages)
    \/ SetSpeedBelief(Percentages)
    \/ SetPowerBelief
    \/ TurnOn(Percentages, PresetModes)
    \/ TurnOff
    \/ SetPresetMode(PresetModes)
    \/ SetDirection(Directions)
    \/ Answer(Answers)

Spec == Init /\ [][Next]_vars

\* The conversions alone: every percentage, a hub that answers every call
ConvFanStates ==
    [power : {1}, speed : {1}, direction : {None}, breeze : {<<>>},
     fpfan_power : {None}, fpfan_speed : {None}]

ConvFireplaceStates ==
    [power : {None}, speed : {None}, direction : {None}, breeze : {<<>>},
     fpfan_power : {1}, fpfan_speed : BondPercentages]

ConvDevices ==
    [type : {"fan"}, max_speed : 1..MaxConvSpeed, actions : {{}}, commands : {<<>>}]
        \cup FireplaceDevices(MaxConvSteps)

InitConv == \E d \in ConvDevices : Constructed(d, EmptyState)

NextConv ==
    \/ UpdateState(ConvFanStates, ConvFireplaceStates)
    \/ SetPercentage(0..100)
    \/ SetSpeedBelief(Percentages)
    \/ Answer({NoHubError})

SpecConv == InitConv /\ [][NextConv]_vars

-----------------------------------------------------------------------------
(* What the entity shows *)

percentage ==
    IF device.type = "fan" THEN BondFan_percentage ELSE BondFireplaceFan_percentage

speed_range ==
    IF device.type = "fan" THEN BondFan_speed_range ELSE BondFireplaceFan_speed_range

\* the snapshot's power flag and speed value for the entity's kind
StatePower == IF device.type = "fan" THEN state.power ELSE state.fpfan_power
StateSpeed == IF device.type = "fan" THEN state.speed ELSE state.fpfan_speed

InStepTable(v) == \E i \in 1..Len(_speeds) : _speeds[i] = v

\* a command is called and reaches its first await
Begins(op) == pc = "idle" /\ pc' # "idle" /\ call'.op = op

\* a command ends, by returning or by raising
Ended(op) == pc # "idle" /\ pc' = "idle" /\ call.op = op

-----------------------------------------------------------------------------
(* Percentage -> step *)

\* the conversions a command evaluated over a range of at least one step
Steps(log) ==
    {log[i] : i \in {j \in DOMAIN log :
                        log[j].states >= 1 /\ log[j].percentage \in 1..100}}

\* C1: over a range 1..N with N >= 1 and a percentage p in 1..100, the step a
\* command converts p to lies in 1..N and is at least floor(N * p / 100); and
\* of two conversions on the same device, the one of the larger percentage
\* gives the larger or the same step.
C1_StepCeiling ==
    [][/\ \A c \in Steps(converted') :
            /\ c.step \in 1..c.states
            /\ c.step >= (c.states * c.percentage) \div 100
       /\ \A c \in Steps(converted), d \in Steps(converted') :
            c.percentage <= d.percentage => c.step <= d.step]_vars

\* set_percentage(50) on a fan of 3 speeds has dispatched set_speed(2)
C1_Witness ==
    /\ device.type = "fan"
    /\ device.max_speed = 3
    /\ call.op = "async_set_percentage"
    /\ call.percentage = 50
    /\ converted = <<Conversion(<<1, 3>>, 50, 2)>>
    /\ dispatched = <<Action_set_speed(2)>>
    /\ pc = "idle"

-----------------------------------------------------------------------------
(* The fireplace's StepTable *)

StrictlyAscending(list) == \A i \in 1..(Len(list) - 1) : list[i] < list[i + 1]

\* C8: the StepTable is strictly ascending, and when the snapshot's fpfan_speed
\* v is in it and set_percentage is called with the percentage the entity
\* derived from v, the step converted to is the index of v plus one and the
\* action dispatched is SET_FP_FAN(v).
C8_RoundTrip ==
    device.type = "fireplace" =>
        /\ StrictlyAscending(_speeds)
        /\ ( /\ applied = "ok"
             /\ Truthy(state.fpfan_speed)
             /\ call.op = "async_set_percentage"
             /\ call.percentage = _speed )
           => /\ Len(converted) = 1
              /\ converted[1].step = list_index(_speeds, state.fpfan_speed).value + 1
              /\ dispatched = <<Action_SET_FP_FAN(state.fpfan_speed)>>

\* StepTable [33, 66, 100] from commands reported in another order, snapshot
\* speed 66, percentage 66 given back, SET_FP_FAN(66) dispatched
C8_Witness ==
    /\ device.type = "fireplace"
    /\ device.commands = <<100, 33, 66>>
    /\ _speeds = <<33, 66, 100>>
    /\ applied = "ok"
    /\ state.fpfan_speed = 66
    /\ _speed = 66
    /\ call.op = "async_set_percentage"
    /\ call.percentage = _speed
    /\ dispatched = <<Action_SET_FP_FAN(66)>>
    /\ pc = "idle"

-----------------------------------------------------------------------------
(* Projection of the snapshot *)

\* C2: once a snapshot has been applied, the percentage shown lies in 0..100,
\* and it is 0 whenever the power flag (of the snapshot, or as stored) is false
\* or the speed value (of the snapshot, or as stored) is falsy.
C2_PercentageZeroWhenOff ==
    applied # "none" =>
        /\ percentage \in 0..100
        /\ (~Truthy(StatePower) \/ ~Truthy(_power)) => percentage = 0
        /\ (~Truthy(StateSpeed) \/ ~Truthy(_speed)) => percentage = 0

\* a fan's snapshot with the power off and a nonzero speed left in it
C2_Witness ==
    /\ device.type = "fan"
    /\ applied = "ok"
    /\ state.power = 0
    /\ state.speed = 2
    /\ _speed = 2
    /\ percentage = 0

\* C9 as claimed: a fireplace snapshot whose fpfan_speed is not in the
\* StepTable ends _apply_state with an error.
C9_AbsentSpeedFails ==
    (device.type = "fireplace" /\ applied # "none" /\ ~InStepTable(state.fpfan_speed))
        => applied = "ValueError"

\* C9, amended: a fireplace snapshot whose fpfan_speed is nonzero and not in
\* the StepTable ends _apply_state with ValueError; one whose fpfan_speed is
\* falsy is applied as speed 0 without a lookup; and whenever _apply_state
\* returns with a nonzero fpfan_speed, that value is in the StepTable and the
\* stored percentage is the one of its index.
C9_NonzeroAbsentSpeedFails ==
    (device.type = "fireplace" /\ applied # "none") =>
        /\ (Truthy(state.fpfan_speed) /\ ~InStepTable(state.fpfan_speed))
              => applied = "ValueError"
        /\ ~Truthy(state.fpfan_speed) => (applied = "ok" /\ _speed = 0)
        /\ (applied = "ok" /\ Truthy(state.fpfan_speed))
              => /\ InStepTable(state.fpfan_speed)
                 /\ \E i \in 1..Len(_speeds) :
                        /\ _speeds[i] = state.fpfan_speed
                        /\ _speed = (i * 100) \div Len(_speeds)

\* StepTable [33, 66], snapshot speed 100: ValueError
C9_Witness ==
    /\ device.type = "fireplace"
    /\ _speeds = <<33, 66>>
    /\ state.fpfan_speed = 100
    /\ applied = "ValueError"

\* what an entity that has seen no other snapshot shows for the snapshot s
FreshPercentage(s) ==
    IF device.type = "fan"
    THEN IF ~Truthy(s.speed) \/ ~Truthy(s.power) THEN 0
         ELSE min(100, max(0, ranged_value_to_percentage(BondFan_speed_range, s.speed)))
    ELSE LET v == _from_bond_percentage(s.fpfan_speed)
         IN IF v.raised.type # "none" \/ ~Truthy(v.value) \/ ~Truthy(s.fpfan_power)
            THEN 0 ELSE v.value

FreshDirection(s) ==
    IF s.direction = Direction_FORWARD THEN DIRECTION_FORWARD
    ELSE IF s.direction = Direction_REVERSE THEN DIRECTION_REVERSE
    ELSE NoneStr

FreshPreset(s) ==
    IF s.breeze # <<>> /\ Truthy(s.breeze[1]) THEN PRESET_MODE_BREEZE ELSE NoneStr

\* C10 as claimed: once a snapshot has been applied, what the entity shows
\* (percentage, direction, preset) is what the latest snapshot and the static
\* data alone determine, whatever commands and snapshots came before, and
\* whether or not a command is suspended in a call to the hub.
C10_ProjectionOfLatestSnapshot ==
    applied # "none" =>
        /\ percentage = FreshPercentage(state)
        /\ BondFan_current_direction = FreshDirection(state)
        /\ preset_mode = FreshPreset(state)

-----------------------------------------------------------------------------
(* Dispatch *)

\* C3 as claimed: turn_off on a fan dispatches preset-off first when the
\* breeze preset is active and turn-off first when it is not, and has
\* dispatched exactly preset-off and turn-off, respectively turn-off alone,
\* when it ends.
C3_TurnOffDispatches ==
    [][device.type = "fan" =>
          /\ Begins("async_turn_off") =>
                dispatched' = IF preset_mode = PRESET_MODE_BREEZE
                              THEN <<Action_BREEZE_OFF>> ELSE <<Action_turn_off>>
          /\ Ended("async_turn_off") =>
                dispatched' = IF dispatched[1] = Action_BREEZE_OFF
                              THEN <<Action_BREEZE_OFF, Action_turn_off>>
                              ELSE <<Action_turn_off>>]_vars

\* C3, amended: turn_off on a fan whose breeze preset is active dispatches
\* preset-off first; when that call completes it dispatches turn-off next and
\* nothing else; when that call raises a transport error the error reaches the
\* caller unchanged and turn-off is not dispatched.  With the preset not
\* active it dispatches turn-off alone.  A snapshot applied while turn_off
\* waits for the hub changes none of this.
C3_TurnOffDispatchesUnlessFailed ==
    [][device.type = "fan" =>
          /\ Begins("async_turn_off") =>
                /\ dispatched' = IF preset_mode = PRESET_MODE_BREEZE
                                 THEN <<Action_BREEZE_OFF>> ELSE <<Action_turn_off>>
                /\ pc' = IF preset_mode = PRESET_MODE_BREEZE
                         THEN "BondFan:218" ELSE "BondFan:221"
          /\ (call.op = "async_turn_off" /\ pc = "BondFan:218" /\ pc' # pc) =>
                \/ /\ pc' = "BondFan:221"
                   /\ dispatched' = <<Action_BREEZE_OFF, Action_turn_off>>
                   /\ raised' = NoError
                \/ /\ pc' = "idle"
                   /\ dispatched' = <<Action_BREEZE_OFF>>
                   /\ hub_error' # NoHubError
                   /\ raised' = ClientResponseError(hub_error')
          /\ (call.op = "async_turn_off" /\ pc = "BondFan:221") =>
                /\ dispatched' = dispatched
                /\ dispatched \in {<<Action_BREEZE_OFF, Action_turn_off>>,
                                   <<Action_turn_off>>}]_vars

\* turn_off with the preset active has dispatched both and returned, a
\* snapshot without the preset having been applied in between
C3_Witness ==
    /\ device.type = "fan"
    /\ call.op = "async_turn_off"
    /\ pc = "idle"
    /\ preset_mode = NoneStr
    /\ dispatched = <<Action_BREEZE_OFF, Action_turn_off>>
    /\ raised = NoError

\* the actions of the belief-state path, per kind of entity
PowerBelief(b) ==
    IF device.type = "fan" THEN Action("SetStateBelief", "power", b)
    ELSE Action("SetStateBelief", "fpfan_power", b)

\* the step ceil(N * p / 100), stated by its bounds
CeilingStep(n, p) == CHOOSE k \in 0..n : (k - 1) * 100 < n * p /\ n * p <= k * 100

SpeedBelief(p) ==
    IF device.type = "fan"
    THEN Action("SetStateBelief", "speed", CeilingStep(BondFan_speed_range[2], p))
    ELSE Action("SetStateBelief", "fpfan_speed", _speeds[CeilingStep(Len(_speeds), p)])

\* C4 as claimed: set_speed_belief(0) dispatches set_power_belief(false) and
\* nothing else; set_speed_belief(s), s in 1..100, has dispatched exactly
\* set_power_belief(true) and then the speed belief with the converted value
\* when it ends.
C4_SpeedBeliefDispatches ==
    (call.op = "async_set_speed_belief" /\ pc = "idle") =>
        IF call.percentage = 0
        THEN dispatched = <<PowerBelief(0)>>
        ELSE /\ Len(dispatched) = 2
             /\ dispatched[1] = PowerBelief(1)
             /\ dispatched[2] = SpeedBelief(call.percentage)

\* C4, amended: set_speed_belief(0) dispatches set_power_belief(false) and
\* nothing else.  set_speed_belief(s), s in 1..100, dispatches
\* set_power_belief(true) first; when that call completes and the entity has
\* at least one step, it dispatches the speed belief with the converted value
\* next and nothing else; when that call raises, nothing else is dispatched;
\* a fireplace with an empty StepTable raises IndexError after the first
\* dispatch and dispatches no speed belief.
C4_SpeedBeliefDispatchesUnlessFailed ==
    call.op = "async_set_speed_belief" =>
        IF call.percentage = 0
        THEN dispatched = <<PowerBelief(0)>>
        ELSE /\ Len(dispatched) \in 1..2
             /\ dispatched[1] = PowerBelief(1)
             /\ Len(dispatched) = 2 => dispatched[2] = SpeedBelief(call.percentage)
             /\ pc \in {"BondFan:157", "BondFireplaceFan:317"} => Len(dispatched) = 1
             /\ pc \in {"BondFan:182", "BondFireplaceFan:337"} => Len(dispatched) = 2
             /\ pc = "idle" =>
                   IF Len(dispatched) = 1 /\ hub_error # NoHubError
                   THEN raised.type = "HomeAssistantError"
                   ELSE IF speed_range[2] = 0
                   THEN Len(dispatched) = 1 /\ raised = IndexError
                   ELSE Len(dispatched) = 2

\* set_speed_belief(50) on a fireplace with StepTable [33, 66] has returned
C4_Witness ==
    /\ device.type = "fireplace"
    /\ _speeds = <<33, 66>>
    /\ call.op = "async_set_speed_belief"
    /\ call.percentage = 50
    /\ pc = "idle"
    /\ dispatched = <<Action("SetStateBelief", "fpfan_power", 1),
                      Action("SetStateBelief", "fpfan_speed", 33)>>
    /\ raised = NoError

BeliefCall == call.op \in {"async_set_power_belief", "async_set_speed_belief"}

\* C5: a belief-state call never ends with a ClientResponseError; when the hub
\* answered one of its calls with an error, the call ends with a
\* HomeAssistantError that carries that error's code and message and the
\* entity's id.
C5_BeliefErrorsRewrapped ==
    BeliefCall =>
        /\ raised.type # "ClientResponseError"
        /\ hub_error # NoHubError =>
              /\ raised.type = "HomeAssistantError"
              /\ raised.code = hub_error.code
              /\ raised.message = hub_error.message
              /\ raised.entity_id = entity_id

\* the second dispatch of set_speed_belief answered with code 500
C5_Witness ==
    /\ call.op = "async_set_speed_belief"
    /\ Len(dispatched) = 2
    /\ pc = "idle"
    /\ hub_error.code = 500
    /\ raised.type = "HomeAssistantError"
    /\ raised.code = 500

\* the preset names the entity does not support
Unsupported(mode) ==
    /\ mode # NoneStr
    /\ (mode # PRESET_MODE_BREEZE \/ device.type # "fan" \/ ~has_action("BreezeOn"))

\* C6 as claimed: set_preset_mode or turn_on with a preset name the entity
\* does not support raises a validation error and dispatches nothing.
C6_UnsupportedPresetRejected ==
    (call.op \in {"async_set_preset_mode", "async_turn_on"}
        /\ Unsupported(call.preset_mode))
        => (raised = ValueError /\ dispatched = <<>>)

SpeedSetting(a) ==
    \/ a.name \in {"SetSpeed", "SetFpFan"}
    \/ a.key \in {"speed", "fpfan_speed"}

OffPath(a) ==
    a \in {Action_BREEZE_OFF, Action_turn_off, Action_TURN_FP_FAN_OFF,
           Action("SetStateBelief", "power", 0),
           Action("SetStateBelief", "fpfan_power", 0)}

\* C7: no command evaluates the percentage -> step conversion with 0; and a
\* command given percentage 0 (set_percentage, set_speed_belief, turn_on
\* without a preset) dispatches only actions of the off path, at least one, and
\* no speed-setting action.
C7_ZeroRoutedToOff ==
    /\ \A i \in DOMAIN converted : converted[i].percentage # 0
    /\ ( /\ call.op \in {"async_set_percentage", "async_set_speed_belief", "async_turn_on"}
         /\ call.percentage = 0
         /\ call.preset_mode = NoneStr )
       => /\ converted = <<>>
          /\ dispatched # <<>>
          /\ \A i \in DOMAIN dispatched :
                OffPath(dispatched[i]) /\ ~SpeedSetting(dispatched[i])

\* turn_on(percentage = 0) with the breeze preset active went to turn_off
C7_Witness ==
    /\ call.op = "async_turn_on"
    /\ call.percentage = 0
    /\ call.preset_mode = NoneStr
    /\ pc = "idle"
    /\ dispatched = <<Action_BREEZE_OFF, Action_turn_off>>
    /\ converted = <<>>

====
